---- MODULE Spec2Model ----
(***************************************************************************)
(* make_ozone_netcdf (src/main.py): conversion of an ozone CSV file into a *)
(* netCDF container, modelled statement by statement.  The program counter *)
(* pc names the source line about to execute; a raised exception ends the  *)
(* run in pc = "failed" with the raising line kept in raised_at.           *)
(*                                                                         *)
(* Text that the code edits character by character (the flag meanings) is  *)
(* a sequence of one-character strings; text that is only copied or        *)
(* concatenated is a string.  Numbers in the ozone column are digit        *)
(* sequences, so that a cell that is not a number exists; flag cells are   *)
(* integers.  A timestamp cell is the tuple <<a, b, year, H, M, S>> of the *)
(* numbers written "a/b/year H:M:S".                                       *)
(***************************************************************************)
EXTENDS Integers, Sequences, FiniteSets, TLC

\* Largest number of data rows of an input file.
MaxRows == 3

-----------------------------------------------------------------------------
(* Column names of the input table (src/main.py lines 30, 41, 45, 79). *)

COL_TIME == "Time (UTC)"
COL_OZONE == "Ozone Concentration (ppb)"
COL_FLAG == "Quality Control Falg Value"
COL_MEANING == "Quality Control Flag Meaning"
COL_SECONDS == "seconds_past_midnight"

AllColumns == {COL_TIME, COL_OZONE, COL_FLAG, COL_MEANING}

-----------------------------------------------------------------------------
(* Input space *)

\* Lines available at the top of an input file, in order.
HeaderText == <<"Sensor X", "Alice", "Test run", "Bob", "">>

\* Timestamp cells: 02/01/2023 23:59:59, 01/01/2023 00:00:05,
\* 01/01/2023 12:30:15 and the unparseable 31/02/2023 00:00:00.
T_LATE == <<2, 1, 2023, 23, 59, 59>>
T_EARLY == <<1, 1, 2023, 0, 0, 5>>
T_NOON == <<1, 1, 2023, 12, 30, 15>>
T_BAD == <<31, 2, 2023, 0, 0, 0>>

MkRow(t, o, q, m) ==
    (COL_TIME :> t) @@ (COL_OZONE :> o) @@ (COL_FLAG :> q) @@ (COL_MEANING :> m)

\* Data rows an input file is made of.
RowSet ==
    { MkRow(T_EARLY, <<"1", "0">>, 0, <<"G">>),
      MkRow(T_LATE,  <<"2", "0">>, 1, <<"N", " ", "G">>),
      MkRow(T_LATE,  <<"1", "0">>, 1, <<"G">>),
      MkRow(T_NOON,  <<"2", "0">>, 2, <<"N", " ", "G">>),
      MkRow(T_BAD,   <<"1", "0">>, 0, <<"G">>),
      MkRow(T_EARLY, <<"x">>,      0, <<"G">>),
      MkRow(T_EARLY, <<"1", "0">>, 2, <<>>) }

RowSeqs == UNION { [1..n -> RowSet] : n \in 0..MaxRows }

\* Values of the skiprows argument.
SkipRowsSet == {3, 5}

\* One anomaly of the environment at a time: the input file cannot be
\* opened, it has fewer lines than skiprows, the output path cannot be
\* written, or the column-name row lacks one column.
Anomalies ==
    { [kind |-> k, col |-> ""] : k \in {"none", "no_input", "short_file", "out_unwritable"} }
        \cup { [kind |-> "missing", col |-> c] : c \in AllColumns }

\* The file at in_file under an anomaly: whether it opens, its header
\* lines, the columns its column-name row names, and its data rows.  A file
\* with fewer lines than skiprows has no table.
InFile(anomaly, skip, rs) ==
    [ exists  |-> anomaly.kind # "no_input",
      header  |-> IF anomaly.kind = "short_file"
                  THEN SubSeq(HeaderText, 1, skip - 1)
                  ELSE SubSeq(HeaderText, 1, skip),
      columns |-> IF anomaly.kind = "short_file" THEN {}
                  ELSE IF anomaly.kind = "missing"
                       THEN AllColumns \ {anomaly.col}
                       ELSE AllColumns,
      rows    |-> IF anomaly.kind = "short_file" THEN <<>> ELSE rs ]

-----------------------------------------------------------------------------
(* Library behaviour the function relies on *)

\* Sequence helpers.
Range(s) == { s[i] : i \in DOMAIN s }

\* pandas.read_csv type inference: a cell is a number when it is a non-empty
\* run of digits.
Digits == {"0", "1", "2", "3", "4", "5", "6", "7", "8", "9"}

DigitValue(c) ==
    CASE c = "0" -> 0 [] c = "1" -> 1 [] c = "2" -> 2 [] c = "3" -> 3
      [] c = "4" -> 4 [] c = "5" -> 5 [] c = "6" -> 6 [] c = "7" -> 7
      [] c = "8" -> 8 [] c = "9" -> 9

IsNumber(cell) == cell # <<>> /\ \A i \in DOMAIN cell : cell[i] \in Digits

RECURSIVE NumberValue(_)
NumberValue(cell) ==
    IF cell = <<>> THEN 0
    ELSE 10 * NumberValue(SubSeq(cell, 1, Len(cell) - 1)) + DigitValue(cell[Len(cell)])

\* Calendar of datetime.
IsLeap(y) == (y % 4 = 0 /\ y % 100 # 0) \/ y % 400 = 0

DaysInMonth(m, y) ==
    IF m = 2 THEN (IF IsLeap(y) THEN 29 ELSE 28)
    ELSE IF m \in {4, 6, 9, 11} THEN 30 ELSE 31

\* pandas.to_datetime(..., utc = True, dayfirst = True) on one cell
\* "a/b/year H:M:S": a is the day and b the month.
ParsesDayFirst(cell) ==
    /\ cell[2] \in 1..12
    /\ cell[1] \in 1..DaysInMonth(cell[2], cell[3])
    /\ cell[4] \in 0..23
    /\ cell[5] \in 0..59
    /\ cell[6] \in 0..59

ToDatetime(cell) ==
    [ year |-> cell[3], month |-> cell[2], day |-> cell[1],
      hour |-> cell[4], minute |-> cell[5], second |-> cell[6] ]

\* strftime: two-digit fields are zero padded.
Pad2(n) == IF n < 10 THEN "0" \o ToString(n) ELSE ToString(n)

StrftimeDate(ts) == ToString(ts.year) \o "-" \o Pad2(ts.month) \o "-" \o Pad2(ts.day)

StrftimeTime(ts) == Pad2(ts.hour) \o ":" \o Pad2(ts.minute) \o ":" \o Pad2(ts.second)

\* str.replace(' ', '_') and ' '.join(...), on character sequences.
ReplaceSpaces(text) == [ i \in DOMAIN text |-> IF text[i] = " " THEN "_" ELSE text[i] ]

RECURSIVE JoinSpace(_)
JoinSpace(texts) ==
    IF texts = <<>> THEN <<>>
    ELSE IF Len(texts) = 1 THEN texts[1]
    ELSE texts[1] \o <<" ">> \o JoinSpace(Tail(texts))

\* sorted(...) of a set of integers.
RECURSIVE Sorted(_)
Sorted(S) ==
    IF S = {} THEN <<>>
    ELSE LET least == CHOOSE x \in S : \A y \in S : x <= y
         IN  <<least>> \o Sorted(S \ {least})

-----------------------------------------------------------------------------
(* State *)

VARIABLES
    in_file,          \* the file at the path in_file (never written)
    skiprows,         \* argument
    expected_format,  \* argument
    out_writable,     \* whether the path out_file can be created
    out_disk,         \* the file at out_file: "absent", "old", "partial", "final"
    pc,               \* source line about to run, "done" or "failed"
    raised_at,        \* line whose exception ended the run, "" when none
    f,                \* input file handle: "unopened", "open", "closed"
    header,           \* local header
    df,               \* local df: column name -> column
    start_end,        \* locals start_data_date, start_data_time, end_data_date, end_data_time
    qc_vals,          \* local qc_vals
    qc_meanings,      \* local qc_meanings
    nc_file,          \* the output container behind nc_file
    ops               \* calls made on the container, in order

vars == << in_file, skiprows, expected_format, out_writable, out_disk, pc,
           raised_at, f, header, df, start_end, qc_vals, qc_meanings,
           nc_file, ops >>

inputs == << in_file, skiprows, expected_format, out_writable >>

NoDates == [ start_data_date |-> "", start_data_time |-> "",
             end_data_date |-> "", end_data_time |-> "" ]

NoContainer == [ state |-> "none", attrs |-> <<>>, dimensions |-> {}, variables |-> <<>> ]

Init ==
    \E anomaly \in Anomalies, skip \in SkipRowsSet, rs \in RowSeqs,
       ef \in BOOLEAN, existed \in BOOLEAN :
        /\ in_file = InFile(anomaly, skip, rs)
        /\ skiprows = skip
        /\ expected_format = ef
        /\ out_writable = (anomaly.kind # "out_unwritable")
        /\ out_disk = IF existed THEN "old" ELSE "absent"
        /\ pc = "L25"
        /\ raised_at = ""
        /\ f = "unopened"
        /\ header = <<>>
        /\ df = <<>>
        /\ start_end = NoDates
        /\ qc_vals = <<>>
        /\ qc_meanings = <<>>
        /\ nc_file = NoContainer
        /\ ops = <<>>

-----------------------------------------------------------------------------
(* Expressions of make_ozone_netcdf *)

\* Follows with the output container created before the header is read.
FollowsOpenFirst(line) ==
    CASE line = "L25" -> "L48" [] line = "L48" -> "L26" [] line = "L26" -> "L29"
      [] line = "L29" -> "L30" [] line = "L30" -> "L31" [] line = "L31" -> "L35"
      [] line = "L35" -> "L41" [] line = "L41" -> "L43" [] line = "L43" -> "L49"
      [] line = "L49" -> "L62" [] line = "L62" -> "L65" [] line = "L65" -> "L68"
      [] line = "L68" -> "L72" [] line = "L72" -> "L78" [] line = "L78" -> "L79"
      [] line = "L79" -> "L80" [] line = "L80" -> "L83" [] line = "L83" -> "done"

\* Follows with time[:] assigned before qc_flag is created.
FollowsWriteEarly(line) ==
    CASE line = "L25" -> "L26" [] line = "L26" -> "L29" [] line = "L29" -> "L30"
      [] line = "L30" -> "L31" [] line = "L31" -> "L35" [] line = "L35" -> "L41"
      [] line = "L41" -> "L43" [] line = "L43" -> "L48" [] line = "L48" -> "L49"
      [] line = "L49" -> "L62" [] line = "L62" -> "L65" [] line = "L65" -> "L68"
      [] line = "L68" -> "L78" [] line = "L78" -> "L72" [] line = "L72" -> "L79"
      [] line = "L79" -> "L80" [] line = "L80" -> "L83" [] line = "L83" -> "done"

\* Order of the statements of the function body.
Follows(line) ==
    CASE line = "L25" -> "L26" [] line = "L26" -> "L29" [] line = "L29" -> "L30"
      [] line = "L30" -> "L31" [] line = "L31" -> "L35" [] line = "L35" -> "L41"
      [] line = "L41" -> "L43" [] line = "L43" -> "L48" [] line = "L48" -> "L49"
      [] line = "L49" -> "L62" [] line = "L62" -> "L65" [] line = "L65" -> "L68"
      [] line = "L68" -> "L72" [] line = "L72" -> "L78" [] line = "L78" -> "L79"
      [] line = "L79" -> "L80" [] line = "L80" -> "L83" [] line = "L83" -> "done"

\* Line 29: the table as read_csv returns it, each column with its dtype.
\* A column whose cells are all numbers holds their values, any other
\* column holds the cells as read, with dtype object.
ReadCsv(file) ==
    [ c \in file.columns |->
        LET cells == [ i \in 1..Len(file.rows) |-> file.rows[i][c] ]
        IN  IF c = COL_OZONE
            THEN IF \A i \in DOMAIN cells : IsNumber(cells[i])
                 THEN [ dtype |-> "float64",
                        values |-> [ i \in DOMAIN cells |-> NumberValue(cells[i]) ] ]
                 ELSE [ dtype |-> "object", values |-> cells ]
            ELSE IF c = COL_FLAG
                 THEN [ dtype |-> "int64", values |-> cells ]
                 ELSE [ dtype |-> "object", values |-> cells ] ]

\* SecondsPastMidnight counting whole days of the month as well.
SecondsWithDays(h) ==
    ((h.day - 1) * 86400) + (h.hour * 3600) + (h.minute * 60) + h.second

\* Line 31: seconds past midnight of one timestamp.
SecondsPastMidnight(h) == (h.hour * 3600) + (h.minute * 60) + h.second

\* StartRow taking the row with the earliest date.
StartRowEarliest(column) ==
    column[CHOOSE i \in DOMAIN column :
               \A j \in DOMAIN column :
                   <<column[i].year, column[i].month, column[i].day>>
                       = <<column[j].year, column[j].month, column[j].day>>
                   \/ column[i].year < column[j].year
                   \/ (column[i].year = column[j].year /\ column[i].month < column[j].month)
                   \/ (column[i].year = column[j].year /\ column[i].month = column[j].month
                          /\ column[i].day < column[j].day)]

\* Line 35: the row whose date becomes the epoch of the time axis.
StartRow(column) == column[1]

\* Line 37: the row that gives the end date and time.
EndRow(column) == column[Len(column)]

\* QcVals without the sort: distinct values in order of first appearance.
RECURSIVE QcValsUnsorted(_)
QcValsUnsorted(column) ==
    IF column = <<>> THEN <<>>
    ELSE LET front == QcValsUnsorted(SubSeq(column, 1, Len(column) - 1))
             last  == column[Len(column)]
         IN  IF last \in Range(front) THEN front ELSE Append(front, last)

\* Line 41: sorted(set(column)).
QcVals(column) == Sorted(Range(column))

\* Line 44: df.loc[column == val].index[0].
ValIndex(column, val) ==
    CHOOSE i \in DOMAIN column :
        /\ column[i] = val
        /\ \A j \in DOMAIN column : column[j] = val => i <= j

\* Line 45: the sanitised meaning.
QcMeaning(text) == ReplaceSpaces(text)

\* GlobalAssignments without the test of expected_format.
GlobalAssignmentsAlways(hdr, ef, dates) ==
    << [name |-> "title", reads |-> 1, value |-> hdr[1] \o " Data"],
       [name |-> "instrument_name", reads |-> 1, value |-> hdr[1]],
       [name |-> "contact", reads |-> 2, value |-> hdr[2]],
       [name |-> "description", reads |-> 3, value |-> hdr[3]],
       [name |-> "creator", reads |-> 4,
        value |-> IF 4 \in DOMAIN hdr THEN hdr[4] ELSE ""],
       [name |-> "history", reads |-> 0, value |-> "Created at <now>"],
       [name |-> "start_time", reads |-> 0,
        value |-> dates.start_data_date \o " " \o dates.start_data_time \o "Z"],
       [name |-> "end_time", reads |-> 0,
        value |-> dates.end_data_date \o " " \o dates.end_data_time \o "Z"] >>

\* Lines 49-59: the attribute assignments in order, each with the header
\* index (1-based, 0 when none) it reads and the value it stores.
HeaderLine(hdr, i) == IF i \in DOMAIN hdr THEN hdr[i] ELSE ""

GlobalAssignments(hdr, ef, dates) ==
    ( IF ef
      THEN << [name |-> "title", reads |-> 1, value |-> HeaderLine(hdr, 1) \o " Data"],
              [name |-> "instrument_name", reads |-> 1, value |-> HeaderLine(hdr, 1)],
              [name |-> "contact", reads |-> 2, value |-> HeaderLine(hdr, 2)],
              [name |-> "description", reads |-> 3, value |-> HeaderLine(hdr, 3)],
              [name |-> "creator", reads |-> 4, value |-> HeaderLine(hdr, 4)] >>
      ELSE << [name |-> "title", reads |-> 0, value |-> "Ozone Concentration Data"] >> )
    \o << [name |-> "history", reads |-> 0, value |-> "Created at <now>"],
          [name |-> "start_time", reads |-> 0,
           value |-> dates.start_data_date \o " " \o dates.start_data_time \o "Z"],
          [name |-> "end_time", reads |-> 0,
           value |-> dates.end_data_date \o " " \o dates.end_data_time \o "Z"] >>

\* Line 66: the units of the time variable.
TimeUnits(dates) == "seconds since " \o dates.start_data_date \o " 00:00:00 +00:00"

\* Lines 78-80: the column assigned to each variable.
DataColumn(variable) ==
    CASE variable = "time" -> COL_SECONDS
      [] variable = "ozone_concentration" -> COL_OZONE
      [] variable = "qc_flag" -> COL_FLAG

\* Written losing the last row.
WrittenShort(column) == SubSeq(column, 1, Len(column) - 1)

\* Lines 78-80: the values variable[:] = column stores.
Written(column) == column

-----------------------------------------------------------------------------
(* Statements of make_ozone_netcdf, one action each *)

Raise(line) == pc' = "failed" /\ raised_at' = line

Goto(line) == pc' = Follows(line) /\ raised_at' = raised_at

\* Number of lines of a file: header lines, column-name row, data rows.
LineCount(file) ==
    Len(file.header) + (IF file.columns = {} THEN 0 ELSE 1) + Len(file.rows)

\* Line 25: with open(in_file, 'r') as f.
OpenInput ==
    /\ pc = "L25"
    /\ IF in_file.exists
       THEN f' = "open" /\ Goto("L25")
       ELSE f' = f /\ Raise("L25")
    /\ UNCHANGED << inputs, out_disk, header, df, start_end, qc_vals,
                    qc_meanings, nc_file, ops >>

\* Line 26: header = [next(f).strip('\n') for x in range(skiprows)], and the
\* end of the with block, which closes f on both ways out.
ReadHeader ==
    /\ pc = "L26"
    /\ f' = "closed"
    /\ IF LineCount(in_file) < skiprows
       THEN header' = header /\ Raise("L26")
       ELSE header' = SubSeq(in_file.header, 1, skiprows) /\ Goto("L26")
    /\ UNCHANGED << inputs, out_disk, df, start_end, qc_vals, qc_meanings,
                    nc_file, ops >>

\* Line 29: df = pd.read_csv(in_file, skiprows = skiprows).
ReadTable ==
    /\ pc = "L29"
    /\ df' = ReadCsv(in_file)
    /\ Goto("L29")
    /\ UNCHANGED << inputs, out_disk, f, header, start_end, qc_vals,
                    qc_meanings, nc_file, ops >>

\* Line 30: df['Time (UTC)'] = pd.to_datetime(df['Time (UTC)'], ...).
ParseTimes ==
    /\ pc = "L30"
    /\ IF COL_TIME \notin DOMAIN df
          \/ \E i \in DOMAIN df[COL_TIME].values :
                 ~ParsesDayFirst(df[COL_TIME].values[i])
       THEN df' = df /\ Raise("L30")
       ELSE /\ df' = [ df EXCEPT ![COL_TIME] =
                         [ dtype  |-> "datetime64[ns, UTC]",
                           values |-> [ i \in DOMAIN df[COL_TIME].values |->
                                          ToDatetime(df[COL_TIME].values[i]) ] ] ]
            /\ Goto("L30")
    /\ UNCHANGED << inputs, out_disk, f, header, start_end, qc_vals,
                    qc_meanings, nc_file, ops >>

\* Lines 31-32: seconds = [...]; df = df.assign(seconds_past_midnight=seconds).
AssignSeconds ==
    /\ pc = "L31"
    /\ LET seconds == [ i \in DOMAIN df[COL_TIME].values |->
                           SecondsPastMidnight(df[COL_TIME].values[i]) ]
       IN  df' = (COL_SECONDS :> [ dtype |-> "int64", values |-> seconds ]) @@ df
    /\ Goto("L31")
    /\ UNCHANGED << inputs, out_disk, f, header, start_end, qc_vals,
                    qc_meanings, nc_file, ops >>

\* StartEnd leaving the dates empty on a table without rows.
StartEndLenient ==
    /\ pc = "L35"
    /\ start_end' =
          IF df[COL_TIME].values = <<>> THEN start_end
          ELSE [ start_data_date |-> StrftimeDate(StartRow(df[COL_TIME].values)),
                 start_data_time |-> StrftimeTime(StartRow(df[COL_TIME].values)),
                 end_data_date   |-> StrftimeDate(EndRow(df[COL_TIME].values)),
                 end_data_time   |-> StrftimeTime(EndRow(df[COL_TIME].values)) ]
    /\ Goto("L35")
    /\ UNCHANGED << inputs, out_disk, f, header, df, qc_vals, qc_meanings,
                    nc_file, ops >>

\* Lines 35-38: start and end date and time; df['Time (UTC)'][0] raises
\* KeyError on a table without rows.
StartEnd ==
    /\ pc = "L35"
    /\ IF df[COL_TIME].values = <<>>
       THEN start_end' = start_end /\ Raise("L35")
       ELSE /\ start_end' =
                 [ start_data_date |-> StrftimeDate(StartRow(df[COL_TIME].values)),
                   start_data_time |-> StrftimeTime(StartRow(df[COL_TIME].values)),
                   end_data_date   |-> StrftimeDate(EndRow(df[COL_TIME].values)),
                   end_data_time   |-> StrftimeTime(EndRow(df[COL_TIME].values)) ]
            /\ Goto("L35")
    /\ UNCHANGED << inputs, out_disk, f, header, df, qc_vals, qc_meanings,
                    nc_file, ops >>

\* Line 41: qc_vals = sorted(set(df['Quality Control Falg Value'])).
SortFlags ==
    /\ pc = "L41"
    /\ IF COL_FLAG \notin DOMAIN df
       THEN qc_vals' = qc_vals /\ Raise("L41")
       ELSE qc_vals' = QcVals(df[COL_FLAG].values) /\ Goto("L41")
    /\ UNCHANGED << inputs, out_disk, f, header, df, start_end, qc_meanings,
                    nc_file, ops >>

\* Lines 42-45: the loop over qc_vals.  df['Quality Control Flag Meaning']
\* raises KeyError when the column is missing; an empty cell is read as NaN,
\* a float, which has no replace.
CollectMeanings ==
    /\ pc = "L43"
    /\ IF qc_vals # <<>>
          /\ \/ COL_MEANING \notin DOMAIN df
             \/ \E k \in DOMAIN qc_vals :
                    df[COL_MEANING].values[ValIndex(df[COL_FLAG].values, qc_vals[k])] = <<>>
       THEN qc_meanings' = qc_meanings /\ Raise("L43")
       ELSE /\ qc_meanings' =
                 [ k \in DOMAIN qc_vals |->
                     QcMeaning(df[COL_MEANING].values[
                                   ValIndex(df[COL_FLAG].values, qc_vals[k])]) ]
            /\ Goto("L43")
    /\ UNCHANGED << inputs, out_disk, f, header, df, start_end, qc_vals,
                    nc_file, ops >>

\* Line 48: nc_file = Dataset(out_file, 'w', format='NETCDF4_CLASSIC'):
\* creates the file, replacing one that is there.
OpenOutput ==
    /\ pc = "L48"
    /\ IF out_writable
       THEN /\ nc_file' = [ NoContainer EXCEPT !.state = "open" ]
            /\ out_disk' = "partial"
            /\ ops' = Append(ops, "Dataset")
            /\ Goto("L48")
       ELSE UNCHANGED << nc_file, out_disk, ops >> /\ Raise("L48")
    /\ UNCHANGED << inputs, f, header, df, start_end, qc_vals, qc_meanings >>

\* Attribute assignments as a function name -> value.
AttrsOf(assignments) ==
    [ n \in { assignments[i].name : i \in DOMAIN assignments } |->
        (CHOOSE a \in Range(assignments) : a.name = n).value ]

SetNames(prefix, assignments) ==
    [ i \in DOMAIN assignments |-> prefix \o assignments[i].name ]

\* Lines 49-59: the global attributes.  header[i] raises IndexError when the
\* header has no such line; the assignments made before it stay made.
SetGlobalAttributes ==
    /\ pc = "L49"
    /\ LET all    == GlobalAssignments(header, expected_format, start_end)
           bad    == { i \in DOMAIN all : all[i].reads > Len(header) }
           made   == IF bad = {} THEN all
                     ELSE SubSeq(all, 1, (CHOOSE i \in bad : \A j \in bad : i <= j) - 1)
       IN  /\ nc_file' = [ nc_file EXCEPT !.attrs = AttrsOf(made) @@ @ ]
           /\ ops' = ops \o SetNames("nc_file.", made)
           /\ IF bad = {} THEN Goto("L49") ELSE Raise("L49")
    /\ UNCHANGED << inputs, out_disk, f, header, df, start_end, qc_vals, qc_meanings >>

\* Line 62: nc_file.createDimension('time', None).
CreateDimension ==
    /\ pc = "L62"
    /\ nc_file' = [ nc_file EXCEPT !.dimensions = @ \cup {"time"} ]
    /\ ops' = Append(ops, "createDimension")
    /\ Goto("L62")
    /\ UNCHANGED << inputs, out_disk, f, header, df, start_end, qc_vals, qc_meanings >>

\* Lines 65-75: the attribute assignments that follow each createVariable.
VariableAssignments(variable, dates, vals, meanings) ==
    CASE variable = "time" ->
           << [name |-> "units", value |-> TimeUnits(dates)] >>
      [] variable = "ozone_concentration" ->
           << [name |-> "long_name", value |-> "ozone concentration"],
              [name |-> "units", value |-> "parts per billion"] >>
      [] variable = "qc_flag" ->
           << [name |-> "long_name", value |-> "quality control flag"],
              [name |-> "flag_values", value |-> vals],
              [name |-> "flag_meanings", value |-> JoinSpace(meanings)] >>

\* nc_file.createVariable(variable, dtype, ('time',)) and its attributes.
CreateVariable(line, variable, dtype) ==
    /\ pc = line
    /\ LET made == VariableAssignments(variable, start_end, qc_vals, qc_meanings)
       IN  /\ nc_file' = [ nc_file EXCEPT !.variables =
                             (variable :> [ dtype |-> dtype, dimensions |-> <<"time">>,
                                            attrs |-> AttrsOf(made), data |-> <<>>,
                                            assigned |-> FALSE ]) @@ @ ]
           /\ ops' = Append(ops, "createVariable " \o variable)
                       \o SetNames(variable \o ".", made)
    /\ Goto(line)
    /\ UNCHANGED << inputs, out_disk, f, header, df, start_end, qc_vals, qc_meanings >>

\* Lines 65-66.
CreateTime == CreateVariable("L65", "time", "f8")

\* Lines 68-70.
CreateOzone == CreateVariable("L68", "ozone_concentration", "f4")

\* Lines 72-75.
CreateQcFlag == CreateVariable("L72", "qc_flag", "i4")

\* variable[:] = df[column].  df[column] raises KeyError when the column is
\* missing; a column of dtype object holds text that is no number, which
\* the assignment cannot convert to the variable's numeric type.
WriteVariable(line, variable) ==
    /\ pc = line
    /\ LET column == DataColumn(variable)
       IN  IF column \notin DOMAIN df \/ df[column].dtype = "object"
           THEN UNCHANGED << nc_file, ops >> /\ Raise(line)
           ELSE /\ nc_file' = [ nc_file EXCEPT
                                  !.variables[variable].data = Written(df[column].values),
                                  !.variables[variable].assigned = TRUE ]
                /\ ops' = Append(ops, variable \o "[:]")
                /\ Goto(line)
    /\ UNCHANGED << inputs, out_disk, f, header, df, start_end, qc_vals, qc_meanings >>

\* Line 78.
WriteTime == WriteVariable("L78", "time")

\* Line 79.
WriteOzone == WriteVariable("L79", "ozone_concentration")

\* Line 80.
WriteQcFlag == WriteVariable("L80", "qc_flag")

\* Line 83: nc_file.close().
Close ==
    /\ pc = "L83"
    /\ nc_file' = [ nc_file EXCEPT !.state = "closed" ]
    /\ out_disk' = "final"
    /\ ops' = Append(ops, "close")
    /\ Goto("L83")
    /\ UNCHANGED << inputs, f, header, df, start_end, qc_vals, qc_meanings >>

Next ==
    \/ OpenInput
    \/ ReadHeader
    \/ ReadTable
    \/ ParseTimes
    \/ AssignSeconds
    \/ StartEnd
    \/ SortFlags
    \/ CollectMeanings
    \/ OpenOutput
    \/ SetGlobalAttributes
    \/ CreateDimension
    \/ CreateTime
    \/ CreateOzone
    \/ CreateQcFlag
    \/ WriteTime
    \/ WriteOzone
    \/ WriteQcFlag
    \/ Close

Spec == Init /\ [][Next]_vars

\* Types of the state.
TypeOK ==
    /\ pc \in { "L25", "L26", "L29", "L30", "L31", "L35", "L41", "L43", "L48",
                "L49", "L62", "L65", "L68", "L72", "L78", "L79", "L80", "L83",
                "done", "failed" }
    /\ f \in {"unopened", "open", "closed"}
    /\ out_disk \in {"absent", "old", "partial", "final"}
    /\ nc_file.state \in {"none", "open", "closed"}
    /\ (pc = "failed") = (raised_at # "")

-----------------------------------------------------------------------------
(* Properties *)

Terminated == pc \in {"done", "failed"}

OutVariables == {"time", "ozone_concentration", "qc_flag"}

\* What row i of the input file says, read off the raw cells.
RowSeconds(i) ==
    LET cell == in_file.rows[i][COL_TIME]
    IN  cell[4] * 3600 + cell[5] * 60 + cell[6]

RowDate(i) ==
    LET cell == in_file.rows[i][COL_TIME]
    IN  ToString(cell[3]) \o "-" \o Pad2(cell[2]) \o "-" \o Pad2(cell[1])

RowValue(variable, i) ==
    CASE variable = "time" -> RowSeconds(i)
      [] variable = "ozone_concentration" -> NumberValue(in_file.rows[i][COL_OZONE])
      [] variable = "qc_flag" -> in_file.rows[i][COL_FLAG]

\* str.split(' ').
RECURSIVE SplitSpace(_)
SplitSpace(text) ==
    IF \A i \in DOMAIN text : text[i] # " " THEN << text >>
    ELSE LET k == CHOOSE i \in DOMAIN text :
                      text[i] = " " /\ \A j \in 1..(i - 1) : text[j] # " "
         IN  << SubSeq(text, 1, k - 1) >> \o SplitSpace(SubSeq(text, k + 1, Len(text)))

\* C1: a completed run has written to each of time, ozone_concentration and
\* qc_flag exactly one value per data row, the i-th value taken from the
\* i-th row of the input file.
C1_RowsWrittenInOrder ==
    pc = "done" =>
        \A v \in OutVariables :
            /\ nc_file.variables[v].assigned
            /\ Len(nc_file.variables[v].data) = Len(in_file.rows)
            /\ \A i \in DOMAIN in_file.rows :
                   nc_file.variables[v].data[i] = RowValue(v, i)

\* A completed run over three rows, neighbours differing in every column.
C1_Witness ==
    /\ pc = "done"
    /\ Len(in_file.rows) = 3
    /\ \A i \in 1..2 : \A v \in OutVariables : RowValue(v, i) # RowValue(v, i + 1)

\* C2: once qc_flag has its attributes, flag_values is strictly ascending,
\* holds exactly the flag values of the rows, and flag_meanings split on
\* spaces has one entry per flag value: the meaning, spaces replaced by
\* underscores, of the first row in file order that carries the value.
C2_Codebook ==
    "qc_flag" \in DOMAIN nc_file.variables =>
        LET values   == nc_file.variables["qc_flag"].attrs["flag_values"]
            meanings == SplitSpace(nc_file.variables["qc_flag"].attrs["flag_meanings"])
            rows     == in_file.rows
        IN  /\ \A i \in 1..(Len(values) - 1) : values[i] < values[i + 1]
            /\ Range(values) = { rows[i][COL_FLAG] : i \in DOMAIN rows }
            /\ Len(meanings) = Len(values)
            /\ \A k \in DOMAIN values :
                   \E i \in DOMAIN rows :
                       /\ rows[i][COL_FLAG] = values[k]
                       /\ \A j \in 1..(i - 1) : rows[j][COL_FLAG] # values[k]
                       /\ Len(meanings[k]) = Len(rows[i][COL_MEANING])
                       /\ \A c \in DOMAIN meanings[k] :
                              meanings[k][c] = IF rows[i][COL_MEANING][c] = " "
                                               THEN "_" ELSE rows[i][COL_MEANING][c]

\* A completed run over rows flagged 1, 0, 1 whose two rows flagged 1 give
\* different meanings, the first of them with a space in it.
C2_Witness ==
    /\ pc = "done"
    /\ Len(in_file.rows) = 3
    /\ [ i \in 1..3 |-> in_file.rows[i][COL_FLAG] ] = <<1, 0, 1>>
    /\ in_file.rows[1][COL_MEANING] # in_file.rows[3][COL_MEANING]
    /\ " " \in Range(in_file.rows[1][COL_MEANING])

\* C3: seconds_past_midnight of every row is hour*3600 + minute*60 + second
\* of the row's parsed timestamp, lies in 0..86399, and is the same whatever
\* the row's date.
C3_SecondsPastMidnight ==
    COL_SECONDS \in DOMAIN df =>
        /\ Len(df[COL_SECONDS].values) = Len(in_file.rows)
        /\ \A i \in DOMAIN in_file.rows :
               LET ts == df[COL_TIME].values[i]
                   v  == df[COL_SECONDS].values[i]
               IN  /\ v = ts.hour * 3600 + ts.minute * 60 + ts.second
                   /\ v \in 0..86399
                   /\ v = RowSeconds(i)

\* Seconds computed for an input whose second row is a day after the first
\* and reaches 86399.
C3_Witness ==
    /\ COL_SECONDS \in DOMAIN df
    /\ Len(in_file.rows) >= 2
    /\ RowDate(1) # RowDate(2)
    /\ in_file.rows[1][COL_TIME][1] < in_file.rows[2][COL_TIME][1]
    /\ df[COL_SECONDS].values[2] = 86399
    /\ df[COL_SECONDS].values[1] < df[COL_SECONDS].values[2]

\* C4: the units of the time variable are "seconds since D 00:00:00 +00:00"
\* with D the date of the first data row of the file.
C4_TimeUnits ==
    "time" \in DOMAIN nc_file.variables =>
        nc_file.variables["time"].attrs["units"]
            = "seconds since " \o RowDate(1) \o " 00:00:00 +00:00"

\* The time variable defined for an input whose last row has an earlier
\* date than its first row, the first row not at midnight.
C4_Witness ==
    /\ "time" \in DOMAIN nc_file.variables
    /\ Len(in_file.rows) >= 2
    /\ in_file.rows[Len(in_file.rows)][COL_TIME][1] < in_file.rows[1][COL_TIME][1]
    /\ RowSeconds(1) # 0

HeaderAttributes == {"instrument_name", "contact", "description", "creator"}

\* C5: in a completed run each of instrument_name, contact, description and
\* creator is a global attribute exactly when expected_format is true; when
\* it is false the global attributes are title, history, start_time and
\* end_time, the title is "Ozone Concentration Data", and no attribute
\* holds a header line.
C5_GlobalAttributes ==
    pc = "done" =>
        /\ \A a \in HeaderAttributes : (a \in DOMAIN nc_file.attrs) <=> expected_format
        /\ {"title", "history", "start_time", "end_time"} \subseteq DOMAIN nc_file.attrs
        /\ ~expected_format =>
               /\ DOMAIN nc_file.attrs = {"title", "history", "start_time", "end_time"}
               /\ nc_file.attrs["title"] = "Ozone Concentration Data"
               /\ \A a \in DOMAIN nc_file.attrs : \A i \in DOMAIN in_file.header :
                      /\ nc_file.attrs[a] # in_file.header[i]
                      /\ nc_file.attrs[a] # in_file.header[i] \o " Data"

\* A completed run with expected_format false over a file with a header.
C5_Witness ==
    /\ pc = "done"
    /\ ~expected_format
    /\ Len(header) >= 4

\* The tabular data is malformed: the file has its header and column-name
\* row, and a required column is missing, a timestamp cell does not parse,
\* or an ozone cell is no number.
MalformedTable ==
    /\ in_file.exists
    /\ LineCount(in_file) >= skiprows
    /\ \/ in_file.columns # AllColumns
       \/ \E i \in DOMAIN in_file.rows :
              \/ ~ParsesDayFirst(in_file.rows[i][COL_TIME])
              \/ ~IsNumber(in_file.rows[i][COL_OZONE])

\* The header has every line the global attributes read.
HeaderSuffices == expected_format => skiprows >= 4

\* C6: on malformed tabular data the run fails, and after the failure no
\* created but unfinished output file is left at out_file.  (Stated for
\* runs in which the header is not at fault as well.)
C6_NoPartialOutput ==
    (MalformedTable /\ HeaderSuffices) =>
        /\ pc # "done"
        /\ pc = "failed" => out_disk # "partial"

\* C7: when the run has ended, normally or by an exception, the input file
\* handle and the output container it opened are closed.
C7_HandlesReleased ==
    Terminated => f # "open" /\ nc_file.state # "open"

\* The file has its header lines and column-name row and no data row.
ZeroRowInput ==
    /\ in_file.exists
    /\ LineCount(in_file) >= skiprows
    /\ in_file.columns = AllColumns
    /\ in_file.rows = <<>>

\* C8, as claimed: on a file with header and column-name row and no data
\* row the run completes, with a closed container whose three variables
\* have length zero and whose codebook is empty.
C8_EmptyContainer ==
    (ZeroRowInput /\ out_writable /\ Terminated) =>
        /\ pc = "done"
        /\ nc_file.state = "closed"
        /\ \A v \in OutVariables : nc_file.variables[v].data = <<>>
        /\ nc_file.variables["qc_flag"].attrs["flag_values"] = <<>>

\* C8, amended: on a file with header and column-name row and no data row
\* the run never gets past line 35, where taking the first timestamp
\* raises; the output container is never opened and out_file is untouched.
C8_FailsOnEmptyTable ==
    ZeroRowInput =>
        /\ pc \in {"L25", "L26", "L29", "L30", "L31", "L35", "failed"}
        /\ pc = "failed" => raised_at = "L35"
        /\ nc_file.state = "none"
        /\ ops = <<>>
        /\ out_disk \in {"absent", "old"}

\* The run over a file without data rows has ended at line 35, the table
\* read and its (empty) seconds column computed.
C8_Witness ==
    /\ ZeroRowInput
    /\ out_writable
    /\ pc = "failed"
    /\ raised_at = "L35"
    /\ COL_SECONDS \in DOMAIN df

\* C9: when the input file cannot be opened or has fewer than skiprows
\* lines, the run fails without ever opening the output container: out_file
\* is neither created nor modified.
C9_NoOutputWithoutInput ==
    (~in_file.exists \/ LineCount(in_file) < skiprows) =>
        /\ pc # "done"
        /\ pc = "failed" => raised_at \in {"L25", "L26"}
        /\ nc_file.state = "none"
        /\ ops = <<>>
        /\ out_disk \in {"absent", "old"}

\* The run has failed on a file that opens but is shorter than skiprows,
\* with a file already at out_file.
C9_Witness ==
    /\ in_file.exists
    /\ LineCount(in_file) < skiprows
    /\ pc = "failed"
    /\ f = "closed"
    /\ out_disk = "old"

GlobalOps ==
    { "nc_file." \o a : a \in HeaderAttributes \cup {"title", "history", "start_time", "end_time"} }

RequiredGlobalOps ==
    { "nc_file." \o a : a \in {"title", "history", "start_time", "end_time"} }

CreateOps == { "createVariable " \o v : v \in OutVariables }

VariableAttrOps ==
    { "time.units", "ozone_concentration.long_name", "ozone_concentration.units",
      "qc_flag.long_name", "qc_flag.flag_values", "qc_flag.flag_meanings" }

WriteOps == { v \o "[:]" : v \in OutVariables }

\* Step of the output sequence a call belongs to.
Phase(op) ==
    IF op = "Dataset" THEN 1
    ELSE IF op \in GlobalOps THEN 2
    ELSE IF op = "createDimension" THEN 3
    ELSE IF op \in CreateOps \cup VariableAttrOps THEN 4
    ELSE IF op \in WriteOps THEN 5
    ELSE 6

\* C10: the calls on the container come in the order open, global
\* attributes, time dimension, the three variables with their attributes,
\* the three data assignments, close.  No later step starts before the
\* step before it is complete: no data is assigned before all three
\* variables have all their attributes, and close comes after all three
\* assignments.
C10_OutputOrder ==
    /\ \A i \in DOMAIN ops : \A j \in DOMAIN ops : i < j => Phase(ops[i]) <= Phase(ops[j])
    /\ \A i \in DOMAIN ops : \A j \in DOMAIN ops : i # j => ops[i] # ops[j]
    /\ ops # <<>> => ops[1] = "Dataset"
    /\ "createDimension" \in Range(ops) => RequiredGlobalOps \subseteq Range(ops)
    /\ Range(ops) \cap (CreateOps \cup VariableAttrOps) # {} =>
           "createDimension" \in Range(ops)
    /\ Range(ops) \cap WriteOps # {} =>
           /\ CreateOps \cup VariableAttrOps \subseteq Range(ops)
           /\ \A v \in OutVariables :
                  DOMAIN nc_file.variables[v].attrs
                      = IF v = "time" THEN {"units"}
                        ELSE IF v = "qc_flag"
                             THEN {"long_name", "flag_values", "flag_meanings"}
                             ELSE {"long_name", "units"}
    /\ "close" \in Range(ops) => WriteOps \subseteq Range(ops)
    /\ pc = "done" => "close" \in Range(ops)

\* A completed run over at least one row: every step has happened.
C10_Witness ==
    /\ pc = "done"
    /\ in_file.rows # <<>>
    /\ ops[Len(ops)] = "close"
    /\ Len(ops) >= 18

====
